---- MODULE Spec2Model ----
(***************************************************************************)
(* Protein-folding qubit-Hamiltonian construction of qiskit-nature:        *)
(* the contact-qubit builder, the bead turn indicators, the distance       *)
(* calculator and the first-neighbour term.                                *)
(*                                                                         *)
(* Operators of the algebra substrate that occur here are diagonal: sums   *)
(* of tensor products of I and Z.  Such an operator is held as a record    *)
(*   [num_qubits |-> n, coeffs |-> f]                                      *)
(* where f maps a set of qubit positions (the positions that carry Z,      *)
(* position 0 being the rightmost tensor factor) to the coefficient of     *)
(* that Pauli string.  Coefficients are integers in units of 1/CoeffDen.   *)
(* Like terms are always held merged; a coefficient of zero stays in f     *)
(* until reduce removes it.                                                *)
(***************************************************************************)
EXTENDS Integers, FiniteSets, Sequences, TLC

\* ----------------------------------------------------------------- bounds
\* Longest main chain of the contact-builder and bead specifications.
MaxLen == 8
\* Longest main chain of the distance specification.
MaxDistLen == 6
\* Longest main chain whose turn-qubit register a single bead is built on.
MaxBeadLen == 4
\* Largest lambda_1 handed to the neighbour terms.
MaxLambda == 2
\* Widest operator handed to the qubit reducer.
MaxWidth == 5
\* Largest number of terms of an operator handed to the qubit reducer.
MaxTerms == 2
\* Longest residue sequence handed to an energy provider.
MaxBeads == 3
\* Most Pauli factors (width times terms) of a sum given to the reducer.
MaxFactors == 10
\* Longest side chain asked for, and most residue labels handed over with it.
MaxSideChainLen == 3
MaxSideResidues == 4

\* Every coefficient built is a multiple of 1/16: an operator is a product
\* of at most four factors (I - Z)/2.
CoeffDen == 2 * 2 * 2 * 2

VARIABLES
    main_chain_len,   \* peptide: number of main beads
    side_chain,       \* peptide: hot vector, bead index -> 0 / 1
    pc,               \* position of the running function
    i,                \* loop variable i (lower bead)
    j,                \* loop variable j (upper bead)
    pauli_contacts,   \* <<i, p, j, s>> -> contact operator
    r_contact,        \* number of contact qubits counted
    bead,             \* the bead whose indicators are asked for
    indic,            \* the four turn indicators of bead
    delta_n,          \* axis a -> (<<i, p, j, s>> -> displacement operator)
    x_dist,           \* <<i, p, j, s>> -> squared-distance operator
    call,             \* arguments of the last neighbour-term call
    expr,             \* its result
    new_qubits,       \* the flattened qubit list
    operator,         \* qubit reducer: the operator handed in
    unused,           \* qubit reducer: result of _find_unused_qubits
    reduced,          \* qubit reducer: result of _remove_unused_qubits
    interaction,      \* energy provider: class and additional_energies
    num_beads,        \* energy provider: argument num_beads
    sequence,         \* energy provider: argument sequence
    energy_matrix,    \* energy provider: result of calc_energy_matrix
    side_chain_len,   \* side chain: argument side_chain_len
    side_chain_residue_sequences, \* side chain: argument of that name
    beads_list        \* side chain: result of _build_side_chain

peptide_vars == <<main_chain_len, side_chain>>
contact_vars == <<i, j, pauli_contacts, r_contact>>
bead_vars == <<bead, indic>>
dist_vars == <<delta_n, x_dist, call, expr>>
list_vars == <<new_qubits>>
reducer_vars == <<operator, unused, reduced>>
interaction_vars == <<interaction, num_beads, sequence, energy_matrix>>
chain_vars == <<side_chain_len, side_chain_residue_sequences, beads_list>>
vars == <<peptide_vars, pc, contact_vars, bead_vars, dist_vars, list_vars, reducer_vars,
          interaction_vars, chain_vars>>

\* ------------------------------------------------------ operator algebra
EmptyMap == [z \in {} |-> 0]

Coeff(f, z) == IF z \in DOMAIN f THEN f[z] ELSE 0

\* _build_full_identity(n): the identity I^...^I on n qubits.
_build_full_identity(n) ==
    [num_qubits |-> n, coeffs |-> ({} :> CoeffDen)]

\* An exception in place of a value.
IndexError == [error |-> "IndexError"]

KeyError == [error |-> "KeyError"]

Raised(v) == "error" \in DOMAIN v

\* _build_pauli_z_op(n, indices): Z at every listed position, I elsewhere.
\* The positions index an array of length n; a position outside it raises.
_build_pauli_z_op(n, indices) ==
    LET zs == {indices[k] : k \in DOMAIN indices}
    IN  IF \E q \in zs : q < 0 \/ q >= n
        THEN IndexError
        ELSE [num_qubits |-> n, coeffs |-> (zs :> CoeffDen)]

\* a - b
OpSub(a, b) ==
    [num_qubits |-> a.num_qubits,
     coeffs |-> [z \in DOMAIN a.coeffs \cup DOMAIN b.coeffs |->
                    Coeff(a.coeffs, z) - Coeff(b.coeffs, z)]]

\* a / 2.0
OpHalf(a) ==
    [num_qubits |-> a.num_qubits,
     coeffs |-> [z \in DOMAIN a.coeffs |-> a.coeffs[z] \div 2]]

\* a + b
OpAdd(a, b) ==
    [num_qubits |-> a.num_qubits,
     coeffs |-> [z \in DOMAIN a.coeffs \cup DOMAIN b.coeffs |->
                    Coeff(a.coeffs, z) + Coeff(b.coeffs, z)]]

\* c * a for an integer c
OpScale(c, a) ==
    [num_qubits |-> a.num_qubits,
     coeffs |-> [z \in DOMAIN a.coeffs |-> c * a.coeffs[z]]]

SymDiff(x, y) == (x \ y) \cup (y \ x)

\* a @ b, the composition: Z.Z = I at every position, like terms merged.
RECURSIVE MulAcc(_, _, _, _)
MulAcc(f, keys, g, acc) ==
    IF keys = {} THEN acc
    ELSE LET x == CHOOSE y \in keys : TRUE
             row == [m \in {SymDiff(x, y) : y \in DOMAIN g} |->
                        (f[x] * g[SymDiff(x, m)]) \div CoeffDen]
         IN  MulAcc(f, keys \ {x}, g,
                    [m \in DOMAIN acc \cup DOMAIN row |-> Coeff(acc, m) + Coeff(row, m)])

OpMul(a, b) ==
    [num_qubits |-> a.num_qubits,
     coeffs |-> MulAcc(a.coeffs, DOMAIN a.coeffs, b.coeffs, EmptyMap)]

\* a ^ b, the tensor product: b keeps its positions, a moves left of them.
OpTensor(a, b) ==
    LET n == b.num_qubits
        low(m) == {q \in m : q < n}
        high(m) == {q - n : q \in {r \in m : r >= n}}
    IN  [num_qubits |-> a.num_qubits + n,
         coeffs |-> [m \in {{q + n : q \in za} \cup zb :
                                za \in DOMAIN a.coeffs, zb \in DOMAIN b.coeffs} |->
                        (a.coeffs[high(m)] * b.coeffs[low(m)]) \div CoeffDen]]

\* op.reduce(): like terms are merged (they are held merged), terms with a
\* zero coefficient are dropped; if none is left the result is 0.0 * I^..^I.
reduce(op) ==
    LET nz == {z \in DOMAIN op.coeffs : op.coeffs[z] # 0}
    IN  [num_qubits |-> op.num_qubits,
         coeffs |-> IF nz = {} THEN ({} :> 0) ELSE [z \in nz |-> op.coeffs[z]]]

\* ----------------------------------------------------------------- beads
\* A turn qubit: 0.5 * I - 0.5 * Z at one position of the n turn qubits.
TurnQubit(n, pos) ==
    [num_qubits |-> n,
     coeffs |-> ({} :> (CoeffDen \div 2)) @@ ({pos} :> -(CoeffDen \div 2))]

\* Turn qubits of main bead k (and of its side bead, on the side register):
\* positions 2(k-1) and 2(k-1)+1 of the 2(L-1) turn qubits.  The last bead
\* starts no turn; the pair of its side bead lies past the register and
\* enters delta_n only, the skip at the chain end keeps it out of x_dist.
BeadTurnQubits(L, k) ==
    <<TurnQubit(2 * (L - 1), 2 * (k - 1)), TurnQubit(2 * (L - 1), 2 * (k - 1) + 1)>>

\* MainBead._build_turn_indicator_fun_0 .. _3
MainBead_build_turn_indicator_fun_0(tq, full_id) ==
    reduce(OpTensor(full_id, OpMul(OpSub(full_id, tq[1]), OpSub(full_id, tq[2]))))

\* Indicator 1 with the roles of the two turn qubits exchanged.
MainBead_turn_indicator_fun_1_exchanged(tq, full_id) ==
    reduce(OpTensor(full_id, OpMul(tq[1], OpSub(tq[2], tq[1]))))

MainBead_build_turn_indicator_fun_1(tq, full_id) ==
    reduce(OpTensor(full_id, OpMul(tq[2], OpSub(tq[2], tq[1]))))

MainBead_build_turn_indicator_fun_2(tq, full_id) ==
    reduce(OpTensor(full_id, OpMul(tq[1], OpSub(tq[1], tq[2]))))

MainBead_build_turn_indicator_fun_3(tq, full_id) ==
    reduce(OpTensor(full_id, OpMul(tq[1], tq[2])))

\* SideBead._build_turn_indicator_fun_0 .. _3
SideBead_build_turn_indicator_fun_0(tq, full_id) ==
    reduce(OpTensor(OpMul(OpSub(full_id, tq[1]), OpSub(full_id, tq[2])), full_id))

SideBead_build_turn_indicator_fun_1(tq, full_id) ==
    reduce(OpTensor(OpMul(tq[2], OpSub(tq[2], tq[1])), full_id))

SideBead_build_turn_indicator_fun_2(tq, full_id) ==
    reduce(OpTensor(OpMul(tq[1], OpSub(tq[1], tq[2])), full_id))

SideBead_build_turn_indicator_fun_3(tq, full_id) ==
    reduce(OpTensor(OpMul(tq[1], tq[2]), full_id))

AttributeError == [error |-> "AttributeError"]

\* get_indicator_functions that computes the indicators of a side bead even
\* when the bead has no residue type.
get_indicator_functions_side_unguarded(b) ==
    IF b.residue_type = "None" /\ b.chain_type = "main_chain" THEN AttributeError
    ELSE LET tq == b.turn_qubits
             full_id == _build_full_identity(tq[1].num_qubits)
         IN  IF b.chain_type = "main_chain"
             THEN [a \in 0..3 |->
                     CASE a = 0 -> MainBead_build_turn_indicator_fun_0(tq, full_id)
                       [] a = 1 -> MainBead_build_turn_indicator_fun_1(tq, full_id)
                       [] a = 2 -> MainBead_build_turn_indicator_fun_2(tq, full_id)
                       [] a = 3 -> MainBead_build_turn_indicator_fun_3(tq, full_id)]
             ELSE [a \in 0..3 |->
                     CASE a = 0 -> SideBead_build_turn_indicator_fun_0(tq, full_id)
                       [] a = 1 -> SideBead_build_turn_indicator_fun_1(tq, full_id)
                       [] a = 2 -> SideBead_build_turn_indicator_fun_2(tq, full_id)
                       [] a = 3 -> SideBead_build_turn_indicator_fun_3(tq, full_id)]

\* get_indicator_functions of a bead [chain_type, residue_type, turn_qubits]:
\* the four indicators, indexed 0..3; a bead without residue type has none.
get_indicator_functions(b) ==
    IF b.residue_type = "None" THEN AttributeError
    ELSE LET tq == b.turn_qubits
             full_id == _build_full_identity(tq[1].num_qubits)
         IN  IF b.chain_type = "main_chain"
             THEN [a \in 0..3 |->
                     CASE a = 0 -> MainBead_build_turn_indicator_fun_0(tq, full_id)
                       [] a = 1 -> MainBead_build_turn_indicator_fun_1(tq, full_id)
                       [] a = 2 -> MainBead_build_turn_indicator_fun_2(tq, full_id)
                       [] a = 3 -> MainBead_build_turn_indicator_fun_3(tq, full_id)]
             ELSE [a \in 0..3 |->
                     CASE a = 0 -> SideBead_build_turn_indicator_fun_0(tq, full_id)
                       [] a = 1 -> SideBead_build_turn_indicator_fun_1(tq, full_id)
                       [] a = 2 -> SideBead_build_turn_indicator_fun_2(tq, full_id)
                       [] a = 3 -> SideBead_build_turn_indicator_fun_3(tq, full_id)]

\* Value (in units of 1/CoeffDen) of a diagonal operator on the basis state
\* whose set of 1-bits is ones: Z contributes -1 on a 1-bit, +1 on a 0-bit.
RECURSIVE EvalSum(_, _, _)
EvalSum(f, keys, ones) ==
    IF keys = {} THEN 0
    ELSE LET z == CHOOSE y \in keys : TRUE
             sign == IF Cardinality(z \cap ones) % 2 = 0 THEN 1 ELSE -1
         IN  sign * f[z] + EvalSum(f, keys \ {z}, ones)

Eval(op, ones) == EvalSum(op.coeffs, DOMAIN op.coeffs, ones)

\* The positions at which some term of op has a non-Identity factor.
Support(op) == UNION (DOMAIN op.coeffs)

\* ------------------------------------------------------------- peptides
HotVectors(L) == [1..L -> {0, 1}]

\* ------------------------------------------------- contact-qubit builder
\* _init_pauli_contacts_dict: the nested dictionaries pauli_contacts[i][p][j]
\* that exist before any operator is stored.
_init_pauli_contacts_dict(L) ==
    {<<a, p, b>> : a \in 1..(L - 4), p \in {0, 1}, b \in 4..L} \cap
    {t \in (1..L) \X {0, 1} \X (1..L) : t[3] >= t[1] + 3}

\* (_build_full_identity(2 * num_qubits) - _build_pauli_z_op(2 * num_qubits, [a, b])) / 2.0
ContactOperator(num_qubits, positions) ==
    LET z == _build_pauli_z_op(2 * num_qubits, positions)
    IN  IF Raised(z) THEN z
        ELSE OpHalf(OpSub(_build_full_identity(2 * num_qubits), z))

\* One assignment pauli_contacts[i][p][j][s] = ...; r_contact += 1.
\* st = [contacts, r, raised].  With guarded (the try / except: pass of the
\* side-chain cases) a failure leaves the dictionary and the counter alone;
\* without it the exception leaves the function.
\* The same with r_contact += 1 placed ahead of the assignment, as the print
\* calls of lines 61 and 72 are.
StoreContactCountFirst(st, L, key, positions, guarded) ==
    LET op == ContactOperator(L - 1, positions)
        ok == ~Raised(op) /\ <<key[1], key[2], key[3]>> \in _init_pauli_contacts_dict(L)
    IN  IF st.raised THEN st
        ELSE IF ok
        THEN [contacts |-> [k \in DOMAIN st.contacts \cup {key} |->
                               IF k = key THEN op ELSE st.contacts[k]],
              r |-> st.r + 1, raised |-> FALSE]
        ELSE [contacts |-> st.contacts, r |-> st.r + 1, raised |-> ~guarded]

StoreContact(st, L, key, positions, guarded) ==
    LET op == ContactOperator(L - 1, positions)
        ok == ~Raised(op) /\ <<key[1], key[2], key[3]>> \in _init_pauli_contacts_dict(L)
    IN  IF st.raised THEN st
        ELSE IF ok
        THEN [contacts |-> [k \in DOMAIN st.contacts \cup {key} |->
                               IF k = key THEN op ELSE st.contacts[k]],
              r |-> st.r + 1, raised |-> FALSE]
        ELSE [contacts |-> st.contacts, r |-> st.r, raised |-> ~guarded]

\* The loop body with the main-main threshold of 5 lowered to the loop's own
\* minimum offset of 3.
ContactPairBodyOffsetThree(st, L, sc, a, b) ==
    LET nq == L - 1
    IN  IF (b - a) % 2 = 1
        THEN LET s1 == IF b - a >= 3
                       THEN StoreContact(st, L, <<a, 0, b, 0>>, <<a - 1, b - 1>>, FALSE)
                       ELSE st
             IN  IF sc[a] = 1 /\ sc[b] = 1
                 THEN StoreContact(s1, L, <<a, 1, b, 1>>, <<nq + a - 1, nq + b - 1>>, TRUE)
                 ELSE s1
        ELSE IF b - a >= 4
             THEN LET s1 == IF sc[b] = 1
                            THEN StoreContact(st, L, <<a, 0, b, 1>>, <<a - 1, nq + b - 1>>, TRUE)
                            ELSE st
                  IN  IF sc[a] = 1
                      THEN StoreContact(s1, L, <<a, 1, b, 0>>, <<b - 1, nq + a - 1>>, TRUE)
                      ELSE s1
             ELSE st

\* Body of the two nested loops for one pair (a, b), lines 41-79.
ContactPairBody(st, L, sc, a, b) ==
    LET nq == L - 1
    IN  IF (b - a) % 2 = 1
        THEN LET s1 == IF b - a >= 5
                       THEN StoreContact(st, L, <<a, 0, b, 0>>, <<a - 1, b - 1>>, FALSE)
                       ELSE st
             IN  IF sc[a] = 1 /\ sc[b] = 1
                 THEN StoreContact(s1, L, <<a, 1, b, 1>>, <<nq + a - 1, nq + b - 1>>, TRUE)
                 ELSE s1
        ELSE IF b - a >= 4
             THEN LET s1 == IF sc[b] = 1
                            THEN StoreContact(st, L, <<a, 0, b, 1>>, <<a - 1, nq + b - 1>>, TRUE)
                            ELSE st
                  IN  IF sc[a] = 1
                      THEN StoreContact(s1, L, <<a, 1, b, 0>>, <<b - 1, nq + a - 1>>, TRUE)
                      ELSE s1
             ELSE st

\* Lines 33-38: the function is entered, the dictionary skeleton is built.
CreatePauliForContactsBegin ==
    /\ pc = "start"
    /\ pc' = "loop"
    /\ pauli_contacts' = EmptyMap
    /\ r_contact' = 0
    /\ i' = 1
    /\ j' = 4
    /\ UNCHANGED <<peptide_vars, bead_vars, dist_vars,
                 list_vars, reducer_vars, interaction_vars, chain_vars>>

\* One iteration of the inner loop, for the pair (i, j).
CreatePauliForContactsStep ==
    /\ pc = "loop"
    /\ i < main_chain_len - 3
    /\ LET st == ContactPairBody([contacts |-> pauli_contacts, r |-> r_contact,
                                  raised |-> FALSE],
                                 main_chain_len, side_chain, i, j)
       IN  /\ pauli_contacts' = st.contacts
           /\ r_contact' = st.r
           /\ pc' = IF st.raised THEN "raised" ELSE "loop"
    /\ IF j < main_chain_len
       THEN i' = i /\ j' = j + 1
       ELSE i' = i + 1 /\ j' = i + 4
    /\ UNCHANGED <<peptide_vars, bead_vars, dist_vars,
                 list_vars, reducer_vars, interaction_vars, chain_vars>>

\* Lines 80-81: both loops are exhausted, the function returns.
CreatePauliForContactsReturn ==
    /\ pc = "loop"
    /\ ~(i < main_chain_len - 3)
    /\ pc' = "done"
    /\ UNCHANGED <<peptide_vars, contact_vars, bead_vars, dist_vars,
                 list_vars, reducer_vars, interaction_vars, chain_vars>>

\* ------------------------------------------------------ the qubit list
\* The leading entry [0] of new_qubits.
ZeroEntry == [scalar |-> 0]

\* The pairs of "for a in range(1, L - 3): for b in range(a + gap, L + 1)",
\* in the order of the loops, from the pair (a, b) on.
RECURSIVE LoopPairs(_, _, _, _)
LoopPairs(a, b, L, gap) ==
    IF a >= L - 3 THEN <<>>
    ELSE IF b > L THEN LoopPairs(a + 1, a + 1 + gap, L, gap)
    ELSE <<<<a, b>>>> \o LoopPairs(a, b + 1, L, gap)

\* try: append(contacts[key]) except: pass, for the keys in order.
RECURSIVE AppendContacts(_, _, _)
AppendContacts(keys, k, contacts) ==
    IF k > Len(keys) THEN <<>>
    ELSE (IF keys[k] \in DOMAIN contacts THEN <<contacts[keys[k]]>> ELSE <<>>)
         \o AppendContacts(keys, k + 1, contacts)

\* Lines 126-133: for i, for j from i + 4, for p, for s.
RECURSIVE NewQubitListKeys(_, _)
NewQubitListKeys(pairs, k) ==
    IF k > Len(pairs) THEN <<>>
    ELSE LET a == pairs[k][1]
             b == pairs[k][2]
         IN  <<<<a, 0, b, 0>>, <<a, 0, b, 1>>, <<a, 1, b, 0>>, <<a, 1, b, 1>>>>
             \o NewQubitListKeys(pairs, k + 1)

\* Lines 116-124: the turn qubits of the main beads 1 .. L-1 and of their side beads.
RECURSIVE NewQubitListConf(_, _, _)
NewQubitListConf(L, sc, q) ==
    IF q >= L THEN <<>>
    ELSE (IF q # 6 THEN BeadTurnQubits(L, q) ELSE <<>>)
         \o (IF sc[q] = 1 THEN BeadTurnQubits(L, q) ELSE <<>>)
         \o NewQubitListConf(L, sc, q + 1)

\* _create_new_qubit_list(peptide, pauli_contacts)
_create_new_qubit_list(L, sc, contacts) ==
    <<ZeroEntry>> \o NewQubitListConf(L, sc, 1)
        \o AppendContacts(NewQubitListKeys(LoopPairs(1, 5, L, 4), 1), 1, contacts)

\* contact_map.py lines 66-76: the turn qubits from bead 3 on, the first
\* one only for bead 3, on the doubled register.
RECURSIVE PeptideQubitListConf(_, _, _)
PeptideQubitListConf(L, sc, q) ==
    LET full_id == _build_full_identity(2 * (L - 1))
        tq == BeadTurnQubits(L, q)
    IN  IF q >= L THEN <<>>
        ELSE (IF q # 3
              THEN <<OpTensor(full_id, tq[1]), OpTensor(full_id, tq[2])>>
              ELSE <<OpTensor(full_id, tq[1])>>)
             \o (IF sc[q] = 1
                 THEN <<OpTensor(tq[1], full_id), OpTensor(tq[2], full_id)>>
                 ELSE <<>>)
             \o PeptideQubitListConf(L, sc, q + 1)

\* ContactMap._add_qubits on the map of the side flags (p, s).
RECURSIVE AddQubitsKeys(_, _, _, _)
AddQubitsKeys(pairs, k, p, s) ==
    IF k > Len(pairs) THEN <<>>
    ELSE <<<<pairs[k][1], p, pairs[k][2], s>>>> \o AddQubitsKeys(pairs, k + 1, p, s)

_add_qubits(L, contacts, p, s) ==
    AppendContacts(AddQubitsKeys(LoopPairs(1, 5, L, 4), 1, p, s), 1, contacts)

\* create_peptide_qubit_list with the maps taken in the order of the side
\* flags read as a binary number: main-side ahead of side-main.
create_peptide_qubit_list_main_side_first(L, sc, contacts) ==
    <<ZeroEntry>> \o PeptideQubitListConf(L, sc, 3)
        \o _add_qubits(L, contacts, 0, 0) \o _add_qubits(L, contacts, 0, 1)
        \o _add_qubits(L, contacts, 1, 0) \o _add_qubits(L, contacts, 1, 1)

\* ContactMap.create_peptide_qubit_list
create_peptide_qubit_list(L, sc, contacts) ==
    <<ZeroEntry>> \o PeptideQubitListConf(L, sc, 3)
        \o _add_qubits(L, contacts, 0, 0) \o _add_qubits(L, contacts, 1, 0)
        \o _add_qubits(L, contacts, 0, 1) \o _add_qubits(L, contacts, 1, 1)

CreateNewQubitList ==
    /\ pc = "done"
    /\ new_qubits' = _create_new_qubit_list(main_chain_len, side_chain, pauli_contacts)
    /\ pc' = "new_qubit_list"
    /\ UNCHANGED <<peptide_vars, contact_vars, bead_vars, dist_vars, reducer_vars,
                   interaction_vars, chain_vars>>

CreatePeptideQubitList ==
    /\ pc = "done"
    /\ new_qubits' = create_peptide_qubit_list(main_chain_len, side_chain, pauli_contacts)
    /\ pc' = "peptide_qubit_list"
    /\ UNCHANGED <<peptide_vars, contact_vars, bead_vars, dist_vars, reducer_vars,
                   interaction_vars, chain_vars>>

\* Nothing has run yet.
ContactIdle == i = 0 /\ j = 0 /\ pauli_contacts = EmptyMap /\ r_contact = 0
BeadIdle == bead = EmptyMap /\ indic = EmptyMap
DistIdle == delta_n = EmptyMap /\ x_dist = EmptyMap /\ call = EmptyMap /\ expr = EmptyMap
ListIdle == new_qubits = EmptyMap
ReducerIdle == operator = EmptyMap /\ unused = EmptyMap /\ reduced = EmptyMap
InteractionIdle ==
    interaction = EmptyMap /\ num_beads = 0 /\ sequence = EmptyMap /\ energy_matrix = EmptyMap
ChainIdle ==
    side_chain_len = 0 /\ side_chain_residue_sequences = EmptyMap /\ beads_list = EmptyMap

Init ==
    /\ main_chain_len \in 1..MaxLen
    /\ side_chain \in HotVectors(main_chain_len)
    /\ pc = "start"
    /\ ContactIdle
    /\ BeadIdle
    /\ DistIdle
    /\ ListIdle
    /\ ReducerIdle
    /\ InteractionIdle
    /\ ChainIdle

Next ==
    \/ CreatePauliForContactsBegin
    \/ CreatePauliForContactsStep
    \/ CreatePauliForContactsReturn
    \/ CreateNewQubitList
    \/ CreatePeptideQubitList

Spec == Init /\ [][Next]_vars

\* --------------------------------------------------- bead specification
\* A bead is constructed with a residue type (or none) and two turn qubits on
\* distinct positions of the turn-qubit register; its indicators are asked for.
BeadsOn(n) ==
    {[chain_type |-> t, residue_type |-> r,
      turn_qubits |-> <<TurnQubit(n, pq[1]), TurnQubit(n, pq[2])>>] :
        t \in {"main_chain", "side_chain"}, r \in {"S", "None"},
        pq \in {x \in (0..(n - 1)) \X (0..(n - 1)) : x[1] # x[2]}}

Beads == UNION {BeadsOn(2 * (L - 1)) : L \in 2..MaxBeadLen}

InitBead ==
    /\ main_chain_len = 0
    /\ side_chain = EmptyMap
    /\ pc = "bead"
    /\ bead \in Beads
    /\ indic = EmptyMap
    /\ ContactIdle
    /\ DistIdle
    /\ ListIdle
    /\ ReducerIdle
    /\ InteractionIdle
    /\ ChainIdle

GetIndicatorFunctions ==
    /\ pc = "bead"
    /\ indic' = get_indicator_functions(bead)
    /\ pc' = "indicators"
    /\ UNCHANGED <<peptide_vars, contact_vars, bead, dist_vars,
                 list_vars, reducer_vars, interaction_vars, chain_vars>>

NextBead == GetIndicatorFunctions

SpecBead == InitBead /\ [][NextBead]_vars

\* ------------------------------------------------------------ side chains
TypeError == [error |-> "TypeError"]

Exception == [error |-> "Exception"]

\* SideBead(*args): __init__ takes main_index, side_index, residue_type and
\* turn_qubits; a call with another number of arguments is a TypeError.
SideBead(args) ==
    IF Len(args) # 4 THEN TypeError
    ELSE [chain_type |-> "side_chain", residue_type |-> args[3], turn_qubits |-> args[4]]

\* BaseChain._build_turn_qubit(chain_len, pauli_z_index)
_build_turn_qubit(chain_len, pauli_z_index) == TurnQubit(2 * (chain_len - 1), pauli_z_index)

\* What _build_side_chain returns: None, or the list of the side beads.
NoSideChain == [is_none |-> TRUE, list |-> <<>>]

\* Lines 32-38: the loop over side_bead_id, from side_bead_id = k on (k is
\* 0-based, the sequences are 1-based).
RECURSIVE SideChainLoop(_, _, _, _)
SideChainLoop(so_far, k, len, residues) ==
    IF k >= len THEN [is_none |-> FALSE, list |-> so_far]
    ELSE IF k + 1 > Len(residues) THEN IndexError
    ELSE LET bead_turn_qubit_1 == _build_turn_qubit(len, k)
             bead_turn_qubit_2 == _build_turn_qubit(len, k)
             side_bead == SideBead(<<residues[k + 1], <<bead_turn_qubit_1, bead_turn_qubit_2>>>>)
         IN  IF Raised(side_bead) THEN side_bead
             ELSE SideChainLoop(Append(so_far, side_bead), k + 1, len, residues)

\* SideChain._build_side_chain(side_chain_len, side_chain_residue_sequences)
_build_side_chain(len, residues) ==
    IF len > 1 THEN Exception
    ELSE IF len = 0 THEN NoSideChain
    ELSE SideChainLoop(<<>>, 0, len, residues)

SideResidues == UNION {[1..m -> {"A", "S"}] : m \in 0..MaxSideResidues}

InitSideChain ==
    /\ main_chain_len = 0
    /\ side_chain = EmptyMap
    /\ pc = "side_chain"
    /\ ContactIdle
    /\ BeadIdle
    /\ DistIdle
    /\ ListIdle
    /\ ReducerIdle
    /\ InteractionIdle
    /\ side_chain_len \in 0..MaxSideChainLen
    /\ side_chain_residue_sequences \in SideResidues
    /\ beads_list = EmptyMap

\* SideChain.__init__: the beads are built, then handed to BaseChain.
BuildSideChain ==
    /\ pc = "side_chain"
    /\ beads_list' = _build_side_chain(side_chain_len, side_chain_residue_sequences)
    /\ pc' = "side_chain_built"
    /\ UNCHANGED <<peptide_vars, contact_vars, bead_vars, dist_vars, list_vars, reducer_vars,
                   interaction_vars, side_chain_len, side_chain_residue_sequences>>

NextSideChain == BuildSideChain

SpecSideChain == InitSideChain /\ [][NextSideChain]_vars

\* ------------------------------------------------------- qubit fixing
\* One turn qubit is given its fixed bit: Z at position q becomes +1 for
\* bit 0 and -1 for bit 1, and the position carries I afterwards.
FixOne(f, q, bit) ==
    [m \in {z \ {q} : z \in DOMAIN f} |->
        Coeff(f, m) + (IF bit = 0 THEN 1 ELSE -1) * Coeff(f, m \cup {q})]

\* _fix_qubits(op): the first two turns (qubits 0..3) and the second qubit
\* of the third turn (qubit 5) are fixed, to the bits 0, 1, 0, 0 and 1.
_fix_qubits(op) ==
    [num_qubits |-> op.num_qubits,
     coeffs |-> FixOne(FixOne(FixOne(FixOne(FixOne(op.coeffs, 0, 0), 1, 1), 2, 0), 3, 0), 5, 1)]

\* ------------------------------------------------- the peptide's beads
\* peptide.get_main_chain[k - 1]
MainBeadOf(L, k) ==
    [chain_type |-> "main_chain", residue_type |-> "S", turn_qubits |-> BeadTurnQubits(L, k)]

\* peptide.get_main_chain[k - 1].side_chain[0]
SideBeadOf(L, k) ==
    [chain_type |-> "side_chain", residue_type |-> "S", turn_qubits |-> BeadTurnQubits(L, k)]

\* (-1) ** k
MinusOneTo(k) == IF k % 2 = 0 THEN 1 ELSE -1

\* ------------------------------------------------ distance calculator
\* The pairs i < j of both loops.
BeadPairs(L) == {ab \in (1..L) \X (1..L) : ab[1] < ab[2]}

\* The sum of lines 92-102 without the alternating sign.
RECURSIVE MainChainSumUnsigned(_, _, _, _)
MainChainSumUnsigned(L, axis, a, k) ==
    LET term == get_indicator_functions(MainBeadOf(L, k))[axis]
    IN  IF k = a THEN term ELSE OpAdd(MainChainSumUnsigned(L, axis, a, k - 1), term)

\* Lines 92-102: 0 + sum over k = a .. b-1 of (-1)^k * indic_axis(bead k).
RECURSIVE MainChainSum(_, _, _, _)
MainChainSum(L, axis, a, k) ==
    LET term == OpScale(MinusOneTo(k), get_indicator_functions(MainBeadOf(L, k))[axis])
    IN  IF k = a THEN term ELSE OpAdd(MainChainSum(L, axis, a, k - 1), term)

\* _calc_distances_main_chain with the inner loop starting at bead i + 1.
_calc_distances_main_chain_from_next(L) ==
    [axis \in 0..3 |->
        [key \in {<<ab[1], 0, ab[2], 0>> : ab \in BeadPairs(L)} |->
            IF key[3] - 1 < key[1] + 1
            THEN reduce(OpScale(0, _build_full_identity(4 * (L - 1))))
            ELSE reduce(_fix_qubits(MainChainSum(L, axis, key[1] + 1, key[3] - 1)))]]

\* _calc_distances_main_chain: delta_n<axis>[i][0][j][0] for all i < j.
_calc_distances_main_chain(L) ==
    [axis \in 0..3 |->
        [key \in {<<ab[1], 0, ab[2], 0>> : ab \in BeadPairs(L)} |->
            reduce(_fix_qubits(MainChainSum(L, axis, key[1], key[3] - 1)))]]

\* The three side-chain variants of one pair, lines 140-196.
SideVariantKeys(sc, a, b) ==
    {k \in {<<a, 0, b, 1>>, <<a, 1, b, 0>>, <<a, 1, b, 1>>} :
        (k[4] = 1 => sc[b] = 1) /\ (k[2] = 1 => sc[a] = 1)}

\* SideVariant with the lower bead's side indicator added, not subtracted.
SideVariantLowerAdded(L, d, axis, key) ==
    LET a == key[1]
        b == key[3]
        main == d[axis][<<a, 0, b, 0>>]
        upper == OpScale(MinusOneTo(b), get_indicator_functions(SideBeadOf(L, b))[axis])
        lower == OpScale(MinusOneTo(a), get_indicator_functions(SideBeadOf(L, a))[axis])
    IN  IF key[2] = 0
        THEN reduce(_fix_qubits(OpAdd(main, upper)))
        ELSE IF key[4] = 0
        THEN reduce(_fix_qubits(OpAdd(main, lower)))
        ELSE reduce(_fix_qubits(OpAdd(OpAdd(main, upper), lower)))

SideVariant(L, d, axis, key) ==
    LET a == key[1]
        b == key[3]
        main == d[axis][<<a, 0, b, 0>>]
        upper == OpScale(MinusOneTo(b), get_indicator_functions(SideBeadOf(L, b))[axis])
        lower == OpScale(MinusOneTo(a), get_indicator_functions(SideBeadOf(L, a))[axis])
    IN  IF key[2] = 0
        THEN reduce(_fix_qubits(OpAdd(main, upper)))
        ELSE IF key[4] = 0
        THEN reduce(_fix_qubits(OpSub(main, lower)))
        ELSE reduce(_fix_qubits(OpSub(OpAdd(main, upper), lower)))

\* _add_distances_side_chain: the entries with a side flag are added.
_add_distances_side_chain(L, sc, d) ==
    LET new == UNION {SideVariantKeys(sc, ab[1], ab[2]) : ab \in BeadPairs(L)}
    IN  [axis \in 0..3 |->
            [key \in DOMAIN d[axis] \cup new |->
                IF key \in new THEN SideVariant(L, d, axis, key) ELSE d[axis][key]]]

\* ** 2
OpSquare(a) == OpMul(a, a)

\* The entry of one key with the axis-3 square left out.
TotalDistanceThreeAxes(d, key) ==
    reduce(_fix_qubits(OpAdd(OpAdd(OpSquare(d[0][key]), OpSquare(d[1][key])),
                             OpSquare(d[2][key]))))

\* The entry of one key with the axis-3 square counted twice.
TotalDistanceAxisThreeTwice(d, key) ==
    reduce(_fix_qubits(OpAdd(OpAdd(OpSquare(d[0][key]), OpSquare(d[1][key])),
                             OpAdd(OpSquare(d[2][key]),
                                   OpScale(2, OpSquare(d[3][key]))))))

\* Lines 57-60: the entry of one key.
TotalDistance(d, key) ==
    reduce(_fix_qubits(OpAdd(OpAdd(OpSquare(d[0][key]), OpSquare(d[1][key])),
                             OpAdd(OpSquare(d[2][key]), OpSquare(d[3][key])))))

\* The keys stored when the skip at the chain ends is left out.
TotalDistanceKeysNoEndSkip(L, d) ==
    {k \in (1..L) \X {0, 1} \X (1..L) \X {0, 1} : k[1] < k[3] /\ k \in DOMAIN d[0]}

\* Lines 50-63: the keys the four loops store; x_dist[i][p][j][s] is skipped
\* at the chain ends and where delta_n has no entry (KeyError).
TotalDistanceKeys(L, d) ==
    {k \in (1..L) \X {0, 1} \X (1..L) \X {0, 1} :
        /\ k[1] < k[3]
        /\ ~((k[1] = 1 /\ k[2] = 1) \/ (k[3] = L /\ k[4] = 1))
        /\ k \in DOMAIN d[0]}

\* _first_neighbor with lambda_0 = 7 * (j - i) * lambda_1.
_first_neighbor_gap(a, p, b, s, lambda_1, pair_energies, xd) ==
    LET key == <<a, p, b, s>>
        lambda_0 == 7 * (b - a) * lambda_1
    IN  IF key \notin DOMAIN pair_energies THEN IndexError
        ELSE IF key \notin DOMAIN xd THEN KeyError
        ELSE LET x == xd[key]
             IN  reduce(OpScale(lambda_0, OpSub(x, _build_full_identity(x.num_qubits))))

\* _first_neighbor(i, p, j, s, lambda_1, pair_energies, x_dist)
_first_neighbor(a, p, b, s, lambda_1, pair_energies, xd) ==
    LET key == <<a, p, b, s>>
        lambda_0 == 7 * (b - a + 1) * lambda_1
    IN  IF key \notin DOMAIN pair_energies THEN IndexError
        ELSE IF key \notin DOMAIN xd THEN KeyError
        ELSE LET x == xd[key]
             IN  reduce(OpScale(lambda_0, OpSub(x, _build_full_identity(x.num_qubits))))

\* _second_neighbor with the pair energy added to the expression.
_second_neighbor_plus_energy(a, p, b, s, lambda_1, pair_energies, xd) ==
    LET key == <<a, p, b, s>>
    IN  IF key \notin DOMAIN pair_energies THEN IndexError
        ELSE IF key \notin DOMAIN xd THEN KeyError
        ELSE LET e == pair_energies[key]
                 x == xd[key]
                 id == _build_full_identity(x.num_qubits)
             IN  reduce(OpAdd(OpScale(lambda_1, OpSub(OpScale(2, id), x)), OpScale(e, id)))

\* _second_neighbor with lambda_1 * (x - 2 * I).
_second_neighbor_negated(a, p, b, s, lambda_1, pair_energies, xd) ==
    LET key == <<a, p, b, s>>
    IN  IF key \notin DOMAIN pair_energies THEN IndexError
        ELSE IF key \notin DOMAIN xd THEN KeyError
        ELSE LET x == xd[key]
                 id == _build_full_identity(x.num_qubits)
             IN  reduce(OpScale(lambda_1, OpSub(x, OpScale(2, id))))

\* _second_neighbor(i, p, j, s, lambda_1, pair_energies, x_dist)
_second_neighbor(a, p, b, s, lambda_1, pair_energies, xd) ==
    LET key == <<a, p, b, s>>
    IN  IF key \notin DOMAIN pair_energies THEN IndexError
        ELSE IF key \notin DOMAIN xd THEN KeyError
        ELSE LET x == xd[key]
                 id == _build_full_identity(x.num_qubits)
             IN  reduce(OpScale(lambda_1, OpSub(OpScale(2, id), x)))

\* Energy matrices of shape (L + 1, 2, L + 1, 2), and the
\* np.zeros((L, 2, L, 2)) of test_second_neighbor, which has no index L.
EnergyIndices(L) == (0..L) \X {0, 1} \X (0..L) \X {0, 1}

EnergyMatrices(L) ==
    {[k \in EnergyIndices(L) |-> 0], [k \in EnergyIndices(L) |-> -(1 + ((k[1] + k[3]) % 5))],
     [k \in EnergyIndices(L - 1) |-> 0]}

InitDist ==
    /\ main_chain_len \in 1..MaxDistLen
    /\ side_chain \in HotVectors(main_chain_len)
    /\ pc = "dist_start"
    /\ ContactIdle
    /\ BeadIdle
    /\ DistIdle
    /\ ListIdle
    /\ ReducerIdle
    /\ InteractionIdle
    /\ ChainIdle

\* _calc_total_distances, line 37
CalcDistancesMainChain ==
    /\ pc = "dist_start"
    /\ delta_n' = _calc_distances_main_chain(main_chain_len)
    /\ pc' = "main_chain_done"
    /\ UNCHANGED <<peptide_vars, contact_vars, bead_vars, x_dist, call, expr,
                 list_vars, reducer_vars, interaction_vars, chain_vars>>

\* _calc_total_distances, lines 38-39
AddDistancesSideChain ==
    /\ pc = "main_chain_done"
    /\ delta_n' = _add_distances_side_chain(main_chain_len, side_chain, delta_n)
    /\ pc' = "side_chain_done"
    /\ UNCHANGED <<peptide_vars, contact_vars, bead_vars, x_dist, call, expr,
                 list_vars, reducer_vars, interaction_vars, chain_vars>>

\* _calc_total_distances, lines 40-65
CalcTotalDistances ==
    /\ pc = "side_chain_done"
    /\ x_dist' = [key \in TotalDistanceKeys(main_chain_len, delta_n) |->
                     TotalDistance(delta_n, key)]
    /\ pc' = "distances_done"
    /\ UNCHANGED <<peptide_vars, contact_vars, bead_vars, delta_n, call, expr,
                 list_vars, reducer_vars, interaction_vars, chain_vars>>

\* A call of _first_neighbor on the finished table.
FirstNeighbor ==
    /\ pc = "distances_done"
    /\ \E ab \in BeadPairs(main_chain_len), p \in {0, 1}, s \in {0, 1},
          lambda_1 \in 1..MaxLambda, pe \in EnergyMatrices(main_chain_len) :
          /\ call' = [fn |-> "_first_neighbor", i |-> ab[1], p |-> p, j |-> ab[2], s |-> s,
                      lambda_1 |-> lambda_1, pair_energies |-> pe]
          /\ expr' = _first_neighbor(ab[1], p, ab[2], s, lambda_1, pe, x_dist)
    /\ pc' = "term_done"
    /\ UNCHANGED <<peptide_vars, contact_vars, bead_vars, delta_n, x_dist,
                 list_vars, reducer_vars, interaction_vars, chain_vars>>

\* A call of _second_neighbor on the finished table.
SecondNeighbor ==
    /\ pc = "distances_done"
    /\ \E ab \in BeadPairs(main_chain_len), p \in {0, 1}, s \in {0, 1},
          lambda_1 \in 0..MaxLambda, pe \in EnergyMatrices(main_chain_len) :
          /\ call' = [fn |-> "_second_neighbor", i |-> ab[1], p |-> p, j |-> ab[2], s |-> s,
                      lambda_1 |-> lambda_1, pair_energies |-> pe]
          /\ expr' = _second_neighbor(ab[1], p, ab[2], s, lambda_1, pe, x_dist)
    /\ pc' = "term_done"
    /\ UNCHANGED <<peptide_vars, contact_vars, bead_vars, delta_n, x_dist,
                 list_vars, reducer_vars, interaction_vars, chain_vars>>

NextDist ==
    \/ CalcDistancesMainChain
    \/ AddDistancesSideChain
    \/ CalcTotalDistances
    \/ FirstNeighbor
    \/ SecondNeighbor

SpecDist == InitDist /\ [][NextDist]_vars

\* --------------------------------------------------- energy providers
\* list_aa of the energy file, cut down to three residues, a letter that
\* is not a residue, and the table: the file fills the upper triangle.
list_aa == <<"A", "C", "S">>

Letters == {"A", "C", "S", "X"}

mj(a, b) == IF a <= b THEN -(4 * a + b) ELSE 0

\* list_aa.index(letter)
IndexOf(letter) == CHOOSE k \in DOMAIN list_aa : list_aa[k] = letter

Min(a, b) == IF a <= b THEN a ELSE b

Max(a, b) == IF a <= b THEN b ELSE a

InvalidResidueException == [error |-> "InvalidResidueException"]

\* Interaction._validate_residue(sequence)
_validate_residue(seq) == \A k \in DOMAIN seq : \E a \in DOMAIN list_aa : list_aa[a] = seq[k]

\* One caller-supplied energy: <<<<b1, side1>>, <<b2, side2>>, ener>>.
OverrideKey(o) == <<o[1][1], o[1][2], o[2][1], o[2][2]>>

AdditionalEnergyChoices ==
    {<<<<1, 0>>, <<2, 0>>, 3>>, <<<<1, 0>>, <<2, 0>>, -7>>, <<<<2, 1>>, <<1, 0>>, 3>>,
     <<<<0, 0>>, <<0, 0>>, -7>>, <<<<MaxBeads, 0>>, <<MaxBeads, 1>>, 3>>}

\* additional_energies: None, or a list of at most two energies.
NoEnergies == [is_none |-> TRUE, list |-> <<>>]

AdditionalEnergies ==
    {NoEnergies}
        \cup {[is_none |-> FALSE, list |-> l] :
                l \in {<<>>} \cup {<<o>> : o \in AdditionalEnergyChoices}
                      \cup {<<o1, o2>> : o1 \in AdditionalEnergyChoices,
                                         o2 \in AdditionalEnergyChoices}}

\* Lines 28-31: the entries [i, 0, j, 0], j > i, of one i.
LookupRow(pe, a, n, seq) ==
    [k \in DOMAIN pe |->
        IF k[1] = a /\ k[2] = 0 /\ k[3] > a /\ k[3] <= n /\ k[4] = 0
        THEN mj(Min(IndexOf(seq[a]), IndexOf(seq[k[3]])), Max(IndexOf(seq[a]), IndexOf(seq[k[3]])))
        ELSE pe[k]]

\* Lines 33-35: the additional energies are written, in order.
RECURSIVE WriteAdditional(_, _, _)
WriteAdditional(pe, add, k) ==
    IF k > Len(add) THEN pe
    ELSE WriteAdditional([pe EXCEPT ![OverrideKey(add[k])] = add[k][3]], add, k + 1)

\* Line 35 raises for an index outside the matrix.
IndexInBounds(add, n) ==
    add.is_none \/ \A k \in DOMAIN add.list : OverrideKey(add.list[k]) \in EnergyIndices(n)

\* Lines 29-30 raise for a bead past the end of the sequence: the first
\* iteration reads sequence[0] and sequence[j - 1] up to j = num_beads, if
\* its inner loop runs at all.
SequenceInBounds(n, seq) == n < 2 \/ n <= Len(seq)

\* Lines 27-35: the loop over i, from i = a on.
RECURSIVE MixedLoop(_, _, _, _, _)
MixedLoop(pe, a, n, seq, add) ==
    IF a > n THEN pe
    ELSE LET row == LookupRow(pe, a, n, seq)
             written == IF add.is_none THEN row ELSE WriteAdditional(row, add.list, 1)
         IN  MixedLoop(written, a + 1, n, seq, add)

\* What a call hands back: the matrix, or the exception it raised.
Returned(pe) == [matrix |-> pe]

\* calc_energy_matrix with the additional energies written before the lookup.
MixedInteraction_calc_energy_matrix_overrides_first(add, n, seq) ==
    IF ~_validate_residue(seq) THEN InvalidResidueException
    ELSE IF ~SequenceInBounds(n, seq) THEN IndexError
    ELSE IF n >= 1 /\ ~IndexInBounds(add, n) THEN IndexError
    ELSE LET zeros == [k \in EnergyIndices(n) |-> 0]
             written == IF add.is_none \/ n < 1 THEN zeros ELSE WriteAdditional(zeros, add.list, 1)
         IN  Returned(MixedLoop(written, 1, n, seq, NoEnergies))

\* calc_energy_matrix that fills the entry [j, 0, i, 0] along with [i, 0, j, 0].
MixedInteraction_calc_energy_matrix_symmetric(add, n, seq) ==
    IF ~_validate_residue(seq) THEN InvalidResidueException
    ELSE IF ~SequenceInBounds(n, seq) THEN IndexError
    ELSE IF n >= 1 /\ ~IndexInBounds(add, n) THEN IndexError
    ELSE LET pe == MixedLoop([k \in EnergyIndices(n) |-> 0], 1, n, seq, NoEnergies)
             both == [k \in EnergyIndices(n) |->
                         IF k[1] > k[3] THEN pe[<<k[3], k[4], k[1], k[2]>>] ELSE pe[k]]
         IN  Returned(IF add.is_none \/ n < 1 THEN both ELSE WriteAdditional(both, add.list, 1))

\* MixedInteraction.calc_energy_matrix(num_beads, sequence)
MixedInteraction_calc_energy_matrix(add, n, seq) ==
    IF ~_validate_residue(seq) THEN InvalidResidueException
    ELSE IF ~SequenceInBounds(n, seq) THEN IndexError
    ELSE IF n >= 1 /\ ~IndexInBounds(add, n) THEN IndexError
    ELSE Returned(MixedLoop([k \in EnergyIndices(n) |-> 0], 1, n, seq, add))

\* RandomInteraction.calc_energy_matrix: -1 - 4 * rand, in half units, with
\* the draws of np.random.rand taken from {0, 1/2}.
RandomDraws == [{0, 1} -> {0, 1}]

RandomInteraction_calc_energy_matrix(draw, n) ==
    Returned([k \in EnergyIndices(n) |-> -2 - 4 * draw[(k[1] + k[2] + k[3] + k[4]) % 2]])

Sequences == UNION {[1..m -> Letters] : m \in 0..MaxBeads}

Interactions ==
    {[class |-> c, additional_energies |-> add] :
        c \in {"MixedInteraction", "MiyazawaJerniganInteraction"}, add \in AdditionalEnergies}
        \cup {[class |-> "RandomInteraction", additional_energies |-> NoEnergies]}

InitInteraction ==
    /\ main_chain_len = 0
    /\ side_chain = EmptyMap
    /\ pc = "interaction"
    /\ ContactIdle
    /\ BeadIdle
    /\ DistIdle
    /\ ListIdle
    /\ ReducerIdle
    /\ interaction \in Interactions
    /\ sequence \in Sequences
    /\ num_beads \in 0..MaxBeads
    /\ energy_matrix = EmptyMap
    /\ ChainIdle

\* MixedInteraction.calc_energy_matrix, and the table-lookup provider.
CalcEnergyMatrixLookup ==
    /\ pc = "interaction"
    /\ interaction.class \in {"MixedInteraction", "MiyazawaJerniganInteraction"}
    /\ energy_matrix' = MixedInteraction_calc_energy_matrix(interaction.additional_energies,
                                                            num_beads, sequence)
    /\ pc' = "energy_done"
    /\ UNCHANGED <<peptide_vars, contact_vars, bead_vars, dist_vars, list_vars, reducer_vars,
                   interaction, num_beads, sequence, chain_vars>>

\* RandomInteraction.calc_energy_matrix
CalcEnergyMatrixRandom ==
    /\ pc = "interaction"
    /\ interaction.class = "RandomInteraction"
    /\ \E draw \in RandomDraws :
          energy_matrix' = RandomInteraction_calc_energy_matrix(draw, num_beads)
    /\ pc' = "energy_done"
    /\ UNCHANGED <<peptide_vars, contact_vars, bead_vars, dist_vars, list_vars, reducer_vars,
                   interaction, num_beads, sequence, chain_vars>>

NextInteraction ==
    \/ CalcEnergyMatrixLookup
    \/ CalcEnergyMatrixRandom

SpecInteraction == InitInteraction /\ [][NextInteraction]_vars

\* ------------------------------------------------ qubit number reducer
\* The reducer sees an operator term by term: kind is the opflow class,
\* terms the Pauli strings in order, each with its coefficient, its width
\* and the set z of positions (0 = rightmost factor) that carry Z.
ValueError == [error |-> "ValueError"]

TermWeight(k) == IF k % 2 = 1 THEN k ELSE -k

\* A single term of n factors with Z at the positions zs.
PauliOp(n, zs) ==
    [kind |-> "PauliOp", terms |-> <<[coeff |-> 1, width |-> n, z |-> zs]>>]

\* A weighted sum of m terms of n factors, term k with Z at zz[k].
PauliSumOp(n, m, zz) ==
    [kind |-> "PauliSumOp",
     terms |-> [k \in 1..m |-> [coeff |-> TermWeight(k), width |-> n, z |-> zz[k]]]]

\* A sum whose two terms differ in width.
MalformedOp(n1, n2, z1, z2) ==
    [kind |-> "PauliSumOp",
     terms |-> <<[coeff |-> 1, width |-> n1, z |-> z1], [coeff |-> -2, width |-> n2, z |-> z2]>>]

OpWidth(op) == op.terms[1].width

SameWidths(op) == \A k \in DOMAIN op.terms : op.terms[k].width = OpWidth(op)

\* used_map: the positions at which some term carries Z.
UsedMap(op) == UNION {op.terms[k].z : k \in DOMAIN op.terms}

\* for ind in range(num_qubits): if ind not in used_map: unused.append(ind)
RECURSIVE UnusedFrom(_, _, _)
UnusedFrom(ind, n, used) ==
    IF ind >= n THEN <<>>
    ELSE (IF ind \in used THEN <<>> ELSE <<ind>>) \o UnusedFrom(ind + 1, n, used)

\* _find_unused_qubits with the positions counted from the left.
_find_unused_qubits_from_left(op) ==
    UnusedFrom(0, OpWidth(op), {OpWidth(op) - 1 - q : q \in UsedMap(op)})

\* _find_unused_qubits(total_hamiltonian)
_find_unused_qubits(op) == UnusedFrom(0, OpWidth(op), UsedMap(op))

Range(seq) == {seq[k] : k \in DOMAIN seq}

\* The new table of one term: the entries of the unused positions are left
\* out, the others keep their order.
ReducedTable(z, u) == {q - Cardinality({x \in u : x < q}) : q \in z \ u}

RemoveQubits(op, u) ==
    [kind |-> op.kind,
     terms |-> [k \in DOMAIN op.terms |->
                   [coeff |-> op.terms[k].coeff,
                    width |-> op.terms[k].width - Cardinality(u),
                    z |-> ReducedTable(op.terms[k].z, u)]]]

\* _remove_unused_qubits that leaves the Z positions as they were.
_remove_unused_qubits_unshifted(op) ==
    IF ~SameWidths(op) THEN ValueError
    ELSE LET u == Range(_find_unused_qubits(op))
         IN  [kind |-> op.kind,
              terms |-> [k \in DOMAIN op.terms |->
                            [coeff |-> op.terms[k].coeff,
                             width |-> op.terms[k].width - Cardinality(u),
                             z |-> op.terms[k].z]]]

\* _remove_unused_qubits that removes the lowest unused position only.
_remove_unused_qubits_lowest(op) ==
    IF ~SameWidths(op) THEN ValueError
    ELSE LET found == _find_unused_qubits(op)
         IN  RemoveQubits(op, IF found = <<>> THEN {} ELSE {found[1]})

\* _remove_unused_qubits that builds every new term with coefficient 1.
_remove_unused_qubits_unweighted(op) ==
    IF ~SameWidths(op) THEN ValueError
    ELSE LET r == RemoveQubits(op, Range(_find_unused_qubits(op)))
         IN  [kind |-> r.kind,
              terms |-> [k \in DOMAIN r.terms |-> [r.terms[k] EXCEPT !.coeff = 1]]]

\* _remove_unused_qubits that refuses an operator without any used qubit.
_remove_unused_qubits_nonempty(op) ==
    IF ~SameWidths(op) \/ UsedMap(op) = {} THEN ValueError
    ELSE RemoveQubits(op, Range(_find_unused_qubits(op)))

\* _remove_unused_qubits(total_hamiltonian)
_remove_unused_qubits(op) ==
    IF ~SameWidths(op) THEN ValueError
    ELSE RemoveQubits(op, Range(_find_unused_qubits(op)))

\* Value of the operator on the basis state whose 1 bits are ones.
RECURSIVE TermsValue(_, _, _)
TermsValue(terms, k, ones) ==
    IF k = 0 THEN 0
    ELSE TermsValue(terms, k - 1, ones)
         + terms[k].coeff * (IF Cardinality(terms[k].z \cap ones) % 2 = 0 THEN 1 ELSE -1)

ValueOf(op, ones) == TermsValue(op.terms, Len(op.terms), ones)

InitReducer ==
    /\ main_chain_len = 0
    /\ side_chain = EmptyMap
    /\ pc = "reducer"
    /\ ContactIdle
    /\ BeadIdle
    /\ DistIdle
    /\ ListIdle
    /\ InteractionIdle
    /\ ChainIdle
    /\ \E n \in 1..MaxWidth :
          \/ \E zs \in SUBSET (0..(n - 1)) : operator = PauliOp(n, zs)
          \/ \E m \in 1..MaxTerms : \E zz \in [1..m -> SUBSET (0..(n - 1))] :
                 /\ n * m <= MaxFactors
                 /\ operator = PauliSumOp(n, m, zz)
          \/ \E n2 \in (1..MaxWidth) \ {n} : \E z1 \in {{}, {0}}, z2 \in {{}, {0}} :
                 operator = MalformedOp(n, n2, z1, z2)
    /\ unused = EmptyMap
    /\ reduced = EmptyMap

FindUnusedQubits ==
    /\ pc = "reducer"
    /\ unused' = _find_unused_qubits(operator)
    /\ pc' = "found"
    /\ UNCHANGED <<peptide_vars, contact_vars, bead_vars, dist_vars, list_vars, operator,
                   reduced, interaction_vars, chain_vars>>

RemoveUnusedQubits ==
    /\ pc = "reducer"
    /\ reduced' = _remove_unused_qubits(operator)
    /\ pc' = "removed"
    /\ UNCHANGED <<peptide_vars, contact_vars, bead_vars, dist_vars, list_vars, operator,
                   unused, interaction_vars, chain_vars>>

\* _find_unused_qubits on the operator _remove_unused_qubits returned.
FindUnusedQubitsAgain ==
    /\ pc = "removed"
    /\ ~Raised(reduced)
    /\ unused' = _find_unused_qubits(reduced)
    /\ pc' = "found_again"
    /\ UNCHANGED <<peptide_vars, contact_vars, bead_vars, dist_vars, list_vars, operator,
                   reduced, interaction_vars, chain_vars>>

NextReducer ==
    \/ FindUnusedQubits
    \/ RemoveUnusedQubits
    \/ FindUnusedQubitsAgain

SpecReducer == InitReducer /\ [][NextReducer]_vars

\* ------------------------------------------------- the four contact maps
\* pauli_contacts[i][p][j][s]: p is the side flag of the lower bead i and s
\* the side flag of the upper bead j, as the function's own messages
\* ("possible contact between i 0 and j 1") and qubit positions use them.
ContactMapKeys(p, s) ==
    {<<k[1], k[3]>> : k \in {q \in DOMAIN pauli_contacts : q[2] = p /\ q[4] = s}}

MainMainKeys == ContactMapKeys(0, 0)
SideMainKeys == ContactMapKeys(1, 0)
MainSideKeys == ContactMapKeys(0, 1)
SideSideKeys == ContactMapKeys(1, 1)

\* The pairs the two loops range over.
ConsideredPairs(L) == {ab \in (1..L) \X (1..L) : ab[1] < L - 3 /\ ab[1] + 3 <= ab[2]}

IsOdd(n) == n % 2 = 1

HalfIdentityMinusZZ(n, a, b) ==
    [num_qubits |-> n, coeffs |-> ({} :> (CoeffDen \div 2)) @@ ({a, b} :> -(CoeffDen \div 2))]

\* C2: every stored contact operator is 0.5*I - 0.5*Z_a Z_b over 4*(L-1)
\* qubits, where with N = 2*(L-1): main-main uses (i-1, j-1), the side bead
\* of j gives (i-1, N+j-1), the side bead of i gives (j-1, N+i-1) and
\* side-side uses (N+i-1, N+j-1).
C2_ContactOperatorOnFourfoldRegister ==
    \A k \in DOMAIN pauli_contacts :
        LET L == main_chain_len
            N == 2 * (L - 1)
            a == IF k[2] = 0 /\ k[4] = 0 THEN k[1] - 1
                 ELSE IF k[2] = 0 /\ k[4] = 1 THEN k[1] - 1
                 ELSE IF k[2] = 1 /\ k[4] = 0 THEN k[3] - 1
                 ELSE N + k[1] - 1
            b == IF k[2] = 0 /\ k[4] = 0 THEN k[3] - 1
                 ELSE IF k[2] = 0 /\ k[4] = 1 THEN N + k[3] - 1
                 ELSE IF k[2] = 1 /\ k[4] = 0 THEN N + k[1] - 1
                 ELSE N + k[3] - 1
        IN  pauli_contacts[k] = HalfIdentityMinusZZ(4 * (L - 1), a, b)

SAASSS_3_4 == <<0, 0, 1, 1, 0, 0>>
SAASSS_3_4_5 == <<0, 0, 1, 1, 1, 0>>

C4_CounterEqualsStoredOperators ==
    /\ r_contact = Cardinality(DOMAIN pauli_contacts)
    /\ r_contact = Cardinality(MainMainKeys) + Cardinality(SideMainKeys)
                   + Cardinality(MainSideKeys) + Cardinality(SideSideKeys)

SAASSSS_3_4_5_6 == <<0, 0, 1, 1, 1, 1, 0>>

C4_Witness ==
    /\ pc = "done" /\ main_chain_len = 7 /\ side_chain = SAASSSS_3_4_5_6
    /\ r_contact = 6
    /\ Cardinality(DOMAIN pauli_contacts) = 6

\* The admissible (category, i, j) of C1, as keys <<i, p, j, s>>.
AdmissibleKeys(L, sc) ==
    {k \in (1..L) \X {0, 1} \X (1..L) \X {0, 1} :
        /\ <<k[1], k[3]>> \in ConsideredPairs(L)
        /\ LET d == k[3] - k[1]
           IN  \/ k[2] = 0 /\ k[4] = 0 /\ IsOdd(d) /\ d >= 5
               \/ k[2] = 1 /\ k[4] = 1 /\ IsOdd(d) /\ sc[k[1]] = 1 /\ sc[k[3]] = 1
               \/ k[2] = 0 /\ k[4] = 1 /\ ~IsOdd(d) /\ d >= 4 /\ sc[k[3]] = 1
               \/ k[2] = 1 /\ k[4] = 0 /\ ~IsOdd(d) /\ d >= 4 /\ sc[k[1]] = 1}

\* C5: each admissible (category, i, j) has one contact operator, it takes
\* the values 0 and 1 only, and no two contact operators are equal.
C5_ContactOperatorsAreFresh ==
    pc = "done" =>
        /\ \A k \in AdmissibleKeys(main_chain_len, side_chain) : k \in DOMAIN pauli_contacts
        /\ \A k \in DOMAIN pauli_contacts :
               \A ones \in SUBSET Support(pauli_contacts[k]) :
                   Eval(pauli_contacts[k], ones) \in {0, CoeffDen}
        /\ \A k1, k2 \in DOMAIN pauli_contacts :
               k1 # k2 => pauli_contacts[k1] # pauli_contacts[k2]

\* Position, in the bead's indicator operators, of its turn qubit number t:
\* a main bead keeps the position, a side bead's moves left by the register.
IndicatorPosition(b, t) ==
    LET pos == CHOOSE q \in Support(b.turn_qubits[t]) : TRUE
    IN  IF b.chain_type = "main_chain" THEN pos ELSE pos + b.turn_qubits[t].num_qubits

\* The direction which the bits (q0, q1) of the two turn qubits encode.
EncodedTurn(q0, q1) == 2 * q0 + q1

\* C6: for a bead with a residue type and every assignment (q0, q1) of its
\* two turn qubits indicator k is 1 exactly when (q0, q1) encodes k (0: 00,
\* 1: q1 only, 2: q0 only, 3: both) and 0 otherwise; the indicators depend
\* on no other qubit, and the four sum to the identity operator.
C6_IndicatorsResolveIdentity ==
    (pc = "indicators" /\ bead.residue_type # "None") =>
        LET p0 == IndicatorPosition(bead, 1)
            p1 == IndicatorPosition(bead, 2)
            n == 2 * bead.turn_qubits[1].num_qubits
        IN  /\ \A k \in 0..3 : Support(indic[k]) \subseteq {p0, p1}
            /\ \A q0, q1 \in {0, 1} : \A k \in 0..3 :
                   Eval(indic[k], {p \in {p0, p1} : (p = p0 /\ q0 = 1) \/ (p = p1 /\ q1 = 1)})
                       = IF EncodedTurn(q0, q1) = k THEN CoeffDen ELSE 0
            /\ reduce(OpAdd(OpAdd(indic[0], indic[1]), OpAdd(indic[2], indic[3])))
                   = _build_full_identity(n)

\* The side bead of test_side_bead_constructor and its indicator 1,
\* 0.25*I - 0.25*Z7 + 0.25*Z6 - 0.25*Z6 Z7 on 12 qubits.
C6_Witness ==
    /\ pc = "indicators"
    /\ bead = [chain_type |-> "side_chain", residue_type |-> "S",
               turn_qubits |-> <<TurnQubit(6, 0), TurnQubit(6, 1)>>]
    /\ indic[1] = [num_qubits |-> 12,
                   coeffs |-> ({} :> 4) @@ ({7} :> -4) @@ ({6} :> 4) @@ ({6, 7} :> -4)]

\* ------------------------------------------------------ distance table
TableBuilt == pc \in {"distances_done", "term_done"}

CallKey == <<call.i, call.p, call.j, call.s>>

TermReturned(fn) ==
    /\ pc = "term_done"
    /\ call.fn = fn
    /\ CallKey \in DOMAIN x_dist
    /\ CallKey \in DOMAIN call.pair_energies

FirstNeighborReturned == TermReturned("_first_neighbor")

SecondNeighborReturned == TermReturned("_second_neighbor")

\* C7: the distance table has an entry for (i, a, j, b) exactly when
\* 1 <= i < j <= L, a = 0 or (bead i has a side chain and i # 1), and
\* b = 0 or (bead j has a side chain and j # L); every other combination
\* has no key, and every stored entry is an operator, building having
\* raised nothing.
C7_DistanceEntryExistsIffAdmissible ==
    TableBuilt =>
        /\ \A k \in (0..(main_chain_len + 1)) \X {0, 1} \X (0..(main_chain_len + 1)) \X {0, 1} :
              k \in DOMAIN x_dist <=>
                  /\ 1 <= k[1] /\ k[1] < k[3] /\ k[3] <= main_chain_len
                  /\ k[2] = 0 \/ (side_chain[k[1]] = 1 /\ k[1] # 1)
                  /\ k[4] = 0 \/ (side_chain[k[3]] = 1 /\ k[3] # main_chain_len)
        /\ \A k \in DOMAIN x_dist : ~Raised(x_dist[k]) /\ k[2] \in {0, 1} /\ k[4] \in {0, 1}

C7_Witness ==
    /\ pc = "distances_done"
    /\ main_chain_len = 4
    /\ \A k \in 1..4 : side_chain[k] = 1
    /\ <<2, 1, 3, 1>> \in DOMAIN x_dist
    /\ <<1, 1, 2, 0>> \notin DOMAIN x_dist
    /\ <<3, 0, 4, 1>> \notin DOMAIN x_dist
    /\ <<1, 1, 2, 0>> \in DOMAIN delta_n[0]
    /\ <<3, 0, 4, 1>> \in DOMAIN delta_n[0]

\* C8: every entry of the distance table evaluates, under every assignment
\* of the qubits, to the sum over the four axes of the squared displacement
\* of its pair, and is stored reduced: reduce returns it unchanged.
C8_EntryIsReducedSumOfSquares ==
    pc = "distances_done" =>
        \A k \in DOMAIN x_dist :
            /\ \A ones \in SUBSET (Support(x_dist[k]) \cup UNION {Support(delta_n[a][k]) : a \in 0..3}) :
                  CoeffDen * Eval(x_dist[k], ones)
                      = Eval(delta_n[0][k], ones) * Eval(delta_n[0][k], ones)
                        + Eval(delta_n[1][k], ones) * Eval(delta_n[1][k], ones)
                        + Eval(delta_n[2][k], ones) * Eval(delta_n[2][k], ones)
                        + Eval(delta_n[3][k], ones) * Eval(delta_n[3][k], ones)
            /\ reduce(x_dist[k]) = x_dist[k]
            /\ reduce(reduce(x_dist[k])) = reduce(x_dist[k])

C8_Witness ==
    /\ pc = "distances_done"
    /\ main_chain_len = 6
    /\ <<2, 1, 5, 1>> \in DOMAIN x_dist
    /\ x_dist[<<1, 0, 4, 0>>]
           = [num_qubits |-> 20, coeffs |-> ({} :> 4 * CoeffDen) @@ ({4} :> CoeffDen)]

\* C9: for a key with a distance entry, _first_neighbor returns
\* lambda_0 * (x_dist[i][p][j][s] - I) with lambda_0 = 7 * (j - i + 1) * lambda_1,
\* with no zero term kept; on a chain of 6 beads, (1, 0, 4, 0) and
\* lambda_1 = 2 give 168 * I + 56 * Z at qubit 4 of 20.
C9_FirstNeighborIsScaledDistanceMinusIdentity ==
    FirstNeighborReturned =>
        LET x == x_dist[CallKey]
            lambda_0 == 7 * (call.j - call.i + 1) * call.lambda_1
            want(z) == lambda_0 * (Coeff(x.coeffs, z) - (IF z = {} THEN CoeffDen ELSE 0))
        IN  /\ ~Raised(expr)
            /\ expr.num_qubits = x.num_qubits
            /\ \A z \in DOMAIN x.coeffs \cup DOMAIN expr.coeffs : Coeff(expr.coeffs, z) = want(z)
            /\ \A z \in DOMAIN expr.coeffs : expr.coeffs[z] # 0 \/ DOMAIN expr.coeffs = {{}}
            /\ (main_chain_len = 6 /\ CallKey = <<1, 0, 4, 0>> /\ call.lambda_1 = 2) =>
                   /\ lambda_0 = 56
                   /\ expr = [num_qubits |-> 20,
                              coeffs |-> ({} :> 168 * CoeffDen) @@ ({4} :> 56 * CoeffDen)]

C9_Witness ==
    /\ FirstNeighborReturned
    /\ main_chain_len = 6
    /\ side_chain = <<0, 0, 1, 1, 1, 0>>
    /\ CallKey = <<1, 0, 4, 0>>
    /\ call.lambda_1 = 2
    /\ expr = [num_qubits |-> 20, coeffs |-> ({} :> 168 * CoeffDen) @@ ({4} :> 56 * CoeffDen)]

\* C10: for a key with a distance entry and every assignment of the turn
\* bits, the first-neighbour term is 0 exactly when the squared distance of
\* the pair is 1, and strictly positive for every other distance.
C10_FirstNeighborVanishesOnlyAtDistanceOne ==
    FirstNeighborReturned =>
        \A ones \in SUBSET Support(x_dist[CallKey]) :
            LET d == Eval(x_dist[CallKey], ones)
                t == Eval(expr, ones)
            IN  /\ t = 0 <=> d = CoeffDen
                /\ d # CoeffDen => t > 0

\* C11 as stated: for a key with a distance entry and every lambda_1,
\* _second_neighbor returns lambda_1 * (2 * I - x_dist[i][p][j][s]) reduced,
\* and on every assignment of the turn bits the term is a penalty (never
\* negative) that is 0 exactly when the squared distance is 2.
C11_SecondNeighborIsPenaltyVanishingAtTwo ==
    SecondNeighborReturned =>
        LET x == x_dist[CallKey]
            want(z) == call.lambda_1 * ((IF z = {} THEN 2 * CoeffDen ELSE 0) - Coeff(x.coeffs, z))
        IN  /\ ~Raised(expr)
            /\ expr.num_qubits = x.num_qubits
            /\ \A z \in DOMAIN x.coeffs \cup DOMAIN expr.coeffs : Coeff(expr.coeffs, z) = want(z)
            /\ \A z \in DOMAIN expr.coeffs : expr.coeffs[z] # 0 \/ DOMAIN expr.coeffs = {{}}
            /\ \A ones \in SUBSET Support(x) :
                  /\ Eval(expr, ones) >= 0
                  /\ Eval(expr, ones) = 0 <=> Eval(x, ones) = 2 * CoeffDen

\* C11 amended: _second_neighbor returns lambda_1 * (2 * I - x_dist[i][p][j][s])
\* reduced; on every assignment the term is lambda_1 * (2 - d) for the squared
\* distance d, so for lambda_1 > 0 it is 0 exactly when d = 2, positive when
\* d < 2 and negative when d > 2, and for lambda_1 = 0 it is the zero operator.
C11_SecondNeighborIsScaledTwoMinusDistance ==
    SecondNeighborReturned =>
        LET x == x_dist[CallKey]
            want(z) == call.lambda_1 * ((IF z = {} THEN 2 * CoeffDen ELSE 0) - Coeff(x.coeffs, z))
        IN  /\ ~Raised(expr)
            /\ expr.num_qubits = x.num_qubits
            /\ \A z \in DOMAIN x.coeffs \cup DOMAIN expr.coeffs : Coeff(expr.coeffs, z) = want(z)
            /\ \A z \in DOMAIN expr.coeffs : expr.coeffs[z] # 0 \/ DOMAIN expr.coeffs = {{}}
            /\ \A ones \in SUBSET Support(x) :
                  LET d == Eval(x, ones)
                      t == Eval(expr, ones)
                  IN  /\ t = call.lambda_1 * (2 * CoeffDen - d)
                      /\ call.lambda_1 > 0 =>
                            /\ t = 0 <=> d = 2 * CoeffDen
                            /\ t > 0 <=> d < 2 * CoeffDen
                            /\ t < 0 <=> d > 2 * CoeffDen
            /\ call.lambda_1 = 0 => expr.coeffs = ({} :> 0)

\* test_second_neighbor: 5 beads, side chain on bead 3, (1, 0, 4, 0),
\* lambda_1 = 2 and np.zeros((5, 2, 5, 2)) give -4 * I - 2 * Z at qubit 4 of 16.
C11_Witness ==
    /\ SecondNeighborReturned
    /\ main_chain_len = 5
    /\ side_chain = <<0, 0, 1, 0, 0>>
    /\ CallKey = <<1, 0, 4, 0>>
    /\ call.lambda_1 = 2
    /\ call.pair_energies = [k \in EnergyIndices(4) |-> 0]
    /\ expr = [num_qubits |-> 16, coeffs |-> ({} :> -4 * CoeffDen) @@ ({4} :> -2 * CoeffDen)]

\* C12: the results of _first_neighbor and _second_neighbor do not depend
\* on the energy matrix: every matrix that contains the index [i, p, j, s]
\* gives the operator the call returned.
C12_TermsIgnoreEnergyMatrix ==
    (pc = "term_done" /\ CallKey \in DOMAIN call.pair_energies) =>
        \A pe \in {m \in EnergyMatrices(main_chain_len) : CallKey \in DOMAIN m} :
            /\ call.fn = "_first_neighbor" =>
                  _first_neighbor(call.i, call.p, call.j, call.s, call.lambda_1, pe, x_dist) = expr
            /\ call.fn = "_second_neighbor" =>
                  _second_neighbor(call.i, call.p, call.j, call.s, call.lambda_1, pe, x_dist) = expr

C12_Witness ==
    /\ SecondNeighborReturned
    /\ main_chain_len = 5
    /\ CallKey = <<2, 1, 4, 0>>
    /\ call.lambda_1 = 1
    /\ call.pair_energies[CallKey] < 0
    /\ Cardinality({m \in EnergyMatrices(main_chain_len) : CallKey \in DOMAIN m}) = 3
    /\ Cardinality(DOMAIN expr.coeffs) > 1

\* ------------------------------------------------ qubit number reducer
\* The Pauli strings of the operator, in order.
Tables(op) == [k \in DOMAIN op.terms |-> op.terms[k].z]

IdentityEverywhere(op) == {q \in 0..(OpWidth(op) - 1) : \A k \in DOMAIN op.terms : q \notin op.terms[k].z}

\* C13: for a single term or a sum over N qubits, _find_unused_qubits returns,
\* ascending and without repeats, exactly the positions (0 = rightmost factor)
\* at which every term has the factor I; (I^I^I)+(Z^I^Z) gives [1],
\* (I^I^I^Z^I)+(I^I^Z^I^I) gives [0,3,4], the single term I^I^I^Z^I [0,2,3,4].
C13_FindUnusedQubits ==
    (pc = "found" /\ SameWidths(operator)) =>
        /\ \A k \in 1..(Len(unused) - 1) : unused[k] < unused[k + 1]
        /\ Range(unused) = IdentityEverywhere(operator)
        /\ (OpWidth(operator) = 3 /\ operator.kind = "PauliSumOp" /\ Tables(operator) = <<{}, {0, 2}>>)
              => unused = <<1>>
        /\ (OpWidth(operator) = 5 /\ operator.kind = "PauliSumOp" /\ Tables(operator) = <<{1}, {2}>>)
              => unused = <<0, 3, 4>>
        /\ (OpWidth(operator) = 5 /\ operator.kind = "PauliOp" /\ Tables(operator) = <<{1}>>)
              => unused = <<0, 2, 3, 4>>

C13_Witness ==
    /\ pc = "found"
    /\ OpWidth(operator) = 5
    /\ operator.kind = "PauliSumOp"
    /\ Tables(operator) = <<{1}, {2}>>
    /\ unused = <<0, 3, 4>>

\* Rank of a kept position among the kept positions.
KeptRank(op, q) == Cardinality({x \in 0..(q - 1) : x \notin IdentityEverywhere(op)})

\* C14: _remove_unused_qubits returns an operator over N - |U| qubits with
\* the same number of terms, in the same order, with the same coefficients;
\* each term is the original term with exactly the factors at the positions
\* of U deleted and the others in their order; I^Z^I^Z^I becomes Z^Z.
C14_RemoveUnusedQubits ==
    (pc = "removed" /\ SameWidths(operator)) =>
        LET u == IdentityEverywhere(operator)
            n == OpWidth(operator)
        IN  /\ ~Raised(reduced)
            /\ reduced.kind = operator.kind
            /\ Len(reduced.terms) = Len(operator.terms)
            /\ \A k \in DOMAIN operator.terms :
                  /\ reduced.terms[k].coeff = operator.terms[k].coeff
                  /\ reduced.terms[k].width = n - Cardinality(u)
                  /\ reduced.terms[k].z \subseteq 0..(n - Cardinality(u) - 1)
                  /\ \A q \in (0..(n - 1)) \ u :
                        KeptRank(operator, q) \in reduced.terms[k].z <=> q \in operator.terms[k].z
            /\ (n = 5 /\ operator.kind = "PauliOp" /\ Tables(operator) = <<{1, 3}>>)
                  => reduced = [kind |-> "PauliOp",
                                terms |-> <<[coeff |-> 1, width |-> 2, z |-> {0, 1}]>>]

C14_Witness ==
    /\ pc = "removed"
    /\ OpWidth(operator) = 5
    /\ operator.kind = "PauliOp"
    /\ Tables(operator) = <<{1, 3}>>
    /\ reduced = [kind |-> "PauliOp", terms |-> <<[coeff |-> 1, width |-> 2, z |-> {0, 1}]>>]

\* C15: _find_unused_qubits of the operator _remove_unused_qubits returned
\* is the empty list.
C15_NothingUnusedAfterRemoval ==
    pc = "found_again" => unused = <<>>

C15_Witness ==
    /\ pc = "found_again"
    /\ OpWidth(operator) = 5
    /\ Tables(operator) = <<{}, {4}>>
    /\ OpWidth(reduced) = 1
    /\ unused = <<>>

\* C16: on every full assignment, whatever the bits of the removed qubits,
\* the operator has the value of the reduced operator on the bits of the
\* used qubits.
C16_RemovalKeepsValues ==
    (pc = "removed" /\ SameWidths(operator)) =>
        \A ones \in SUBSET (0..(OpWidth(operator) - 1)) :
            ValueOf(operator, ones)
                = ValueOf(reduced, {KeptRank(operator, q) : q \in ones \ IdentityEverywhere(operator)})

C16_Witness ==
    /\ pc = "removed"
    /\ OpWidth(operator) = 5
    /\ Tables(operator) = <<{1, 4}, {4}>>
    /\ Tables(reduced) = <<{0, 1}, {1}>>
    /\ ValueOf(operator, {0, 2, 4}) = 1
    /\ ValueOf(reduced, {1}) = 1

\* An operator all of whose terms have its width and keep their Z inside it.
ValidOperator(op) ==
    /\ ~Raised(op)
    /\ Len(op.terms) >= 1
    /\ \A k \in DOMAIN op.terms :
          op.terms[k].width = OpWidth(op) /\ op.terms[k].z \subseteq 0..(OpWidth(op) - 1)

ListedContacts ==
    LET conf == IF pc = "new_qubit_list"
                THEN NewQubitListConf(main_chain_len, side_chain, 1)
                ELSE PeptideQubitListConf(main_chain_len, side_chain, 3)
    IN  SubSeq(new_qubits, 2 + Len(conf), Len(new_qubits))

\* C18: the flattened qubit list holds all created contact qubits: every
\* operator stored in one of the four contact maps, a side-side contact at
\* offset j - i = 3 included, is in the list, once per stored entry, and
\* the list holds no contact operator that is not in a map.
C18_QubitListHoldsAllContacts ==
    pc \in {"new_qubit_list", "peptide_qubit_list"} =>
        /\ \A key \in DOMAIN pauli_contacts :
              \E k \in DOMAIN ListedContacts : ListedContacts[k] = pauli_contacts[key]
        /\ Len(ListedContacts) = Cardinality(DOMAIN pauli_contacts)
        /\ \A k \in DOMAIN ListedContacts :
              \E key \in DOMAIN pauli_contacts : ListedContacts[k] = pauli_contacts[key]

\* --------------------------------------------------- energy providers
LookupProvider == interaction.class \in {"MixedInteraction", "MiyazawaJerniganInteraction"}

GivenEnergies == interaction.additional_energies.list

\* The last of the given energies that names the entry key, 0 if none does.
LastNaming(key) ==
    LET named == {k \in DOMAIN GivenEnergies : OverrideKey(GivenEnergies[k]) = key}
    IN  IF named = {} THEN 0 ELSE CHOOSE k \in named : \A m \in named : m <= k

\* The literature energy of an unordered pair of residues.
PairEnergy(r1, r2) ==
    LET a == IndexOf(r1)
        b == IndexOf(r2)
    IN  IF a <= b THEN mj(a, b) ELSE mj(b, a)

\* C19: for the table-lookup provider, num_beads >= 1 and a valid sequence
\* that has a residue for each of the num_beads beads,
\* the entry [i, 0, j, 0] is the literature energy of the unordered pair
\* (sequence[i-1], sequence[j-1]) for all 1 <= i < j <= num_beads, except
\* that every given energy is applied after the lookup: its entry holds its
\* energy, and of two given energies for one entry the later one wins.
C19_LookupThenOverrides ==
    (/\ pc = "energy_done"
     /\ LookupProvider
     /\ num_beads >= 1
     /\ num_beads <= Len(sequence)
     /\ _validate_residue(sequence)
     /\ \A k \in DOMAIN GivenEnergies : OverrideKey(GivenEnergies[k]) \in EnergyIndices(num_beads)) =>
        /\ ~Raised(energy_matrix)
        /\ DOMAIN energy_matrix.matrix = EnergyIndices(num_beads)
        /\ \A a \in 1..num_beads : \A b \in (a + 1)..num_beads :
              LastNaming(<<a, 0, b, 0>>) = 0 =>
                  energy_matrix.matrix[<<a, 0, b, 0>>] = PairEnergy(sequence[a], sequence[b])
        /\ \A k \in DOMAIN GivenEnergies :
              energy_matrix.matrix[OverrideKey(GivenEnergies[k])]
                  = GivenEnergies[LastNaming(OverrideKey(GivenEnergies[k]))][3]

C19_Witness ==
    /\ pc = "energy_done"
    /\ interaction.class = "MixedInteraction"
    /\ num_beads = 3
    /\ sequence = <<"S", "A", "C">>
    /\ GivenEnergies = <<<<<<1, 0>>, <<2, 0>>, 3>>, <<<<1, 0>>, <<2, 0>>, -7>>>>
    /\ energy_matrix.matrix[<<1, 0, 2, 0>>] = -7
    /\ energy_matrix.matrix[<<1, 0, 3, 0>>] = mj(2, 3)
    /\ energy_matrix.matrix[<<2, 0, 3, 0>>] = mj(1, 2)

\* C20: each of the three providers rejects a sequence with a letter that
\* is no residue code: calc_energy_matrix fails with the domain error and
\* returns no matrix.
C20_ProvidersRejectUnknownResidue ==
    (pc = "energy_done" /\ ~_validate_residue(sequence)) =>
        /\ Raised(energy_matrix)
        /\ energy_matrix = InvalidResidueException

\* C21: a call of calc_energy_matrix whose sequence is shorter or longer
\* than num_beads raises an error and hands back no matrix.
C21_LengthMismatchFails ==
    (pc = "energy_done" /\ interaction.class = "MixedInteraction"
        /\ Len(sequence) # num_beads)
        => Raised(energy_matrix)

\* ------------------------------------------------------ placeholder beads
\* C23: get_indicator_functions on a bead whose residue type is None fails
\* with an AttributeError, whatever the turn qubits of the bead are; no
\* indicator is computed for it.
C23_PlaceholderBeadHasNoIndicators ==
    (pc = "indicators" /\ bead.residue_type = "None") => indic = AttributeError

\* The placeholder side bead on the last two turn qubits of a chain of 4.
C23_Witness ==
    /\ pc = "indicators"
    /\ bead = [chain_type |-> "side_chain", residue_type |-> "None",
               turn_qubits |-> <<TurnQubit(6, 5), TurnQubit(6, 4)>>]
    /\ indic = AttributeError

\* ------------------------------------------------------------ side chains
\* C22: building a side chain of length greater than 1 fails and yields no
\* beads; length 0 yields no side bead; length 1 (with a residue label for
\* the bead) yields exactly one side bead.
C22_SideChainOfZeroOrOneBead ==
    pc = "side_chain_built" =>
        /\ side_chain_len > 1 => beads_list = Exception
        /\ side_chain_len = 0 => beads_list = NoSideChain
        /\ (side_chain_len = 1 /\ Len(side_chain_residue_sequences) >= 1) =>
              /\ ~Raised(beads_list)
              /\ Len(beads_list.list) = 1

\* ------------------------------------------------- main-chain displacements
MainChainKey(ab) == <<ab[1], 0, ab[2], 0>>

\* The turn qubits the displacement of (a, b) may depend on: those of the
\* main beads a .. b-1.
TurnPositions(a, b) == (2 * (a - 1))..(2 * (b - 1) - 1)

\* The turn qubits that qubit fixing sets, and the ones it sets to 1.
FixedPositions == {0, 1, 2, 3, 5}

FixedToOne == {1, 5}

\* The turn (0..3) that bead k takes under an assignment of the turn qubits.
TurnOf(k, ones) ==
    2 * (IF 2 * (k - 1) \in ones THEN 1 ELSE 0) + (IF 2 * (k - 1) + 1 \in ones THEN 1 ELSE 0)

\* Sum over k = a .. b-1 of (-1)^k * [bead k takes the turn axis].
RECURSIVE SignedTurns(_, _, _, _)
SignedTurns(axis, a, b, ones) ==
    IF a >= b THEN 0
    ELSE (IF TurnOf(a, ones) = axis THEN MinusOneTo(a) ELSE 0) + SignedTurns(axis, a + 1, b, ones)

\* The assignments of the turn qubits of beads a .. b-1 that agree with the
\* fixed qubits.
FixedAssignments(a, b) ==
    {ones \in SUBSET TurnPositions(a, b) :
        ones \cap FixedPositions = TurnPositions(a, b) \cap FixedToOne}

SignedSideIndicator(axis, k) ==
    OpScale(MinusOneTo(k), get_indicator_functions(SideBeadOf(main_chain_len, k))[axis])

\* The same with the fixed qubits replaced by their values.
FixedSideIndicator(axis, k) == _fix_qubits(SignedSideIndicator(axis, k))

\* A key has an entry exactly when the side chains it names exist.
VariantsExistWithSideChains ==
    \A axis \in 0..3 : \A ab \in BeadPairs(main_chain_len) : \A p \in {0, 1}, s \in {0, 1} :
        <<ab[1], p, ab[2], s>> \in DOMAIN delta_n[axis]
            <=> ((p = 1 => side_chain[ab[1]] = 1) /\ (s = 1 => side_chain[ab[2]] = 1))

ConfQubit(pos) ==
    [num_qubits |-> 4 * (main_chain_len - 1),
     coeffs |-> ({} :> (CoeffDen \div 2)) @@ ({pos} :> -(CoeffDen \div 2))]

\* The positions of the conformation qubits from main position q on: the
\* turn qubits 2(q-1), 2(q-1)+1 of position q (the first one only for
\* q = 3), then those of its side bead on the upper half of the register.
RECURSIVE ConfPositions(_)
ConfPositions(q) ==
    LET n == 2 * (main_chain_len - 1)
    IN  IF q >= main_chain_len THEN <<>>
        ELSE (IF q = 3 THEN <<2 * (q - 1)>> ELSE <<2 * (q - 1), 2 * (q - 1) + 1>>)
             \o (IF side_chain[q] = 1 THEN <<n + 2 * (q - 1), n + 2 * (q - 1) + 1>> ELSE <<>>)
             \o ConfPositions(q + 1)

\* main-main, side-main, main-side, side-side: 0, 1, 2, 3.
CategoryRank(key) == key[2] + 2 * key[4]

KeyBefore(k1, k2) ==
    \/ CategoryRank(k1) < CategoryRank(k2)
    \/ CategoryRank(k1) = CategoryRank(k2) /\ k1[1] < k2[1]
    \/ CategoryRank(k1) = CategoryRank(k2) /\ k1[1] = k2[1] /\ k1[3] < k2[3]

\* The keys of K in ascending (category, i, j).
RECURSIVE SortedKeys(_)
SortedKeys(K) ==
    IF K = {} THEN <<>>
    ELSE LET first == CHOOSE k \in K : \A m \in K \ {k} : KeyBefore(k, m)
         IN  <<first>> \o SortedKeys(K \ {first})

\* The stored contacts that the list builder visits.
VisitedContactKeys == {key \in DOMAIN pauli_contacts : key[3] - key[1] >= 4}

\* C26: the list of create_peptide_qubit_list is, in this order: the
\* placeholder 0; the conformation qubits of the main positions 3 .. L-1
\* ascending, position 3 with its first turn qubit only, each position's
\* two side-chain turn qubits directly after its own; the contact operators
\* by category main-main, side-main, main-side, side-side, each category in
\* ascending (i, j).  A chain of 5 with one side chain at position 3 gives
\* 6 elements.
C26_PeptideQubitListOrder ==
    pc = "peptide_qubit_list" =>
        LET conf == ConfPositions(3)
            keys == SortedKeys(VisitedContactKeys)
        IN  /\ Len(new_qubits) = 1 + Len(conf) + Len(keys)
            /\ new_qubits[1] = ZeroEntry
            /\ \A k \in DOMAIN conf : new_qubits[1 + k] = ConfQubit(conf[k])
            /\ \A k \in DOMAIN keys : new_qubits[1 + Len(conf) + k] = pauli_contacts[keys[k]]
            /\ (main_chain_len = 5 /\ side_chain = <<0, 0, 1, 0, 0>>) => Len(new_qubits) = 6

\* The list of test_create_new_qubit_list: 0, Z4, Z12, Z13, Z6, Z7.
C26_Witness ==
    /\ pc = "peptide_qubit_list"
    /\ main_chain_len = 5
    /\ side_chain = <<0, 0, 1, 0, 0>>
    /\ new_qubits = <<ZeroEntry, ConfQubit(4), ConfQubit(12), ConfQubit(13),
                      ConfQubit(6), ConfQubit(7)>>

\* ------------------------------------------------------------- additivity
\* The triples i < j < k of beads.
BeadTriples(L) == {t \in (1..L) \X (1..L) \X (1..L) : t[1] < t[2] /\ t[2] < t[3]}

\* C27: main-chain displacements are additive along the chain: for every
\* axis and all beads i < j < k the displacement of (i, k) is the one of
\* (i, j) plus the one of (j, k), as operators and so on every assignment of
\* the turn qubits (those of beads i .. k-1 that the three depend on).
C27_DisplacementsAreAdditive ==
    pc = "main_chain_done" =>
        \A axis \in 0..3 : \A t \in BeadTriples(main_chain_len) :
            LET whole == delta_n[axis][<<t[1], 0, t[3], 0>>]
                left == delta_n[axis][<<t[1], 0, t[2], 0>>]
                right == delta_n[axis][<<t[2], 0, t[3], 0>>]
            IN  /\ reduce(OpAdd(left, right)) = whole
                /\ Support(whole) \cup Support(left) \cup Support(right)
                       \subseteq TurnPositions(t[1], t[3])
                /\ \A ones \in SUBSET (Support(whole) \cup Support(left) \cup Support(right)) :
                       Eval(whole, ones) = Eval(left, ones) + Eval(right, ones)

\* Chain of 5, axis 3: the displacement of (3, 5), -q4 + q6 * q7, is the sum
\* of the one of (3, 4), -q4, and the one of (4, 5), q6 * q7.
C27_Witness ==
    /\ pc = "main_chain_done"
    /\ main_chain_len = 5
    /\ Support(delta_n[3][<<3, 0, 4, 0>>]) = {4}
    /\ Support(delta_n[3][<<4, 0, 5, 0>>]) = {6, 7}
    /\ Support(delta_n[3][<<3, 0, 5, 0>>]) = {4, 6, 7}
    /\ delta_n[3][<<3, 0, 5, 0>>]
           = reduce(OpAdd(delta_n[3][<<3, 0, 4, 0>>], delta_n[3][<<4, 0, 5, 0>>]))

\* ----------------------------------------------------------------- parity
\* The squared distance of a key under an assignment of the turn qubits.
SquaredDistance(key, ones) == Eval(x_dist[key], ones) \div CoeffDen

\* C28: under every assignment of the turns the squared distance stored for
\* a main-main pair i < j is a whole number of the parity of j - i: it is 1
\* for adjacent beads and never 0 when j - i is odd; for even j - i the
\* value 0 occurs (beads 3 and 5, when beads 3 and 4 take the same turn).
C28_SquaredDistanceHasParityOfGap ==
    pc = "distances_done" =>
        /\ \A ab \in BeadPairs(main_chain_len) :
              LET key == <<ab[1], 0, ab[2], 0>>
              IN  /\ key \in DOMAIN x_dist
                  /\ \A ones \in SUBSET Support(x_dist[key]) :
                        /\ Eval(x_dist[key], ones) % CoeffDen = 0
                        /\ SquaredDistance(key, ones) >= 0
                        /\ SquaredDistance(key, ones) % 2 = (ab[2] - ab[1]) % 2
                        /\ ab[2] = ab[1] + 1 => SquaredDistance(key, ones) = 1
                        /\ (ab[2] - ab[1]) % 2 = 1 => SquaredDistance(key, ones) # 0
        /\ main_chain_len >= 5 =>
              \E ones \in SUBSET Support(x_dist[<<3, 0, 5, 0>>]) :
                  SquaredDistance(<<3, 0, 5, 0>>, ones) = 0

\* Chain of 6: beads 3 and 5 meet when bead 4 repeats the turn of bead 3
\* (turn 3: qubits 4, 6, 7 set), and beads 3 and 6 never meet.
C28_Witness ==
    /\ pc = "distances_done"
    /\ main_chain_len = 6
    /\ SquaredDistance(<<3, 0, 5, 0>>, {4, 6, 7}) = 0
    /\ SquaredDistance(<<3, 0, 5, 0>>, {4}) = 2
    /\ \A ones \in SUBSET Support(x_dist[<<3, 0, 6, 0>>]) :
          SquaredDistance(<<3, 0, 6, 0>>, ones) \in {1, 3, 5}

\* ------------------------------------------------- positions of a contact
\* The two positions handed to _build_pauli_z_op for the key <<i, p, j, s>>,
\* with num_qubits = L - 1 as on line 38.
ContactPositions(L, key) ==
    LET nq == L - 1
    IN  CASE key[2] = 0 /\ key[4] = 0 -> <<key[1] - 1, key[3] - 1>>
          [] key[2] = 1 /\ key[4] = 1 -> <<nq + key[1] - 1, nq + key[3] - 1>>
          [] key[2] = 0 /\ key[4] = 1 -> <<key[1] - 1, nq + key[3] - 1>>
          [] key[2] = 1 /\ key[4] = 0 -> <<key[3] - 1, nq + key[1] - 1>>

\* C29: for every admissible (category, i, j), j = L with a side chain on
\* the last bead included, the two positions of the contact operator are
\* distinct and lie in [0, register size), so the construction does not
\* fail and the exception handlers drop no admissible contact.
C29_ContactPositionsLieInRegister ==
    pc = "done" =>
        \A key \in AdmissibleKeys(main_chain_len, side_chain) :
            LET pos == ContactPositions(main_chain_len, key)
                size == 2 * (main_chain_len - 1)
            IN  /\ pos[1] # pos[2]
                /\ pos[1] \in 0..(size - 1)
                /\ pos[2] \in 0..(size - 1)
                /\ ~Raised(ContactOperator(main_chain_len - 1, pos))
                /\ key \in DOMAIN pauli_contacts

\* ------------------------------------------------ shape of the energy matrix
\* The entries the table lookup fills: [i, 0, j, 0] with 1 <= i < j <= num_beads.
TableEntry(key) ==
    key[2] = 0 /\ key[4] = 0 /\ 1 <= key[1] /\ key[1] < key[3] /\ key[3] <= num_beads

\* C30: the table-lookup provider returns an array of the dimensions
\* [num_beads+1][2][num_beads+1][2]; every entry other than [i, 0, j, 0]
\* with 1 <= i < j <= num_beads is 0 unless a given energy names it: index
\* 0, the pairs with i >= j and the entries with a side flag of 1 carry no
\* table energy.
C30_OnlyTableEntriesAndOverridesAreSet ==
    (pc = "energy_done" /\ LookupProvider /\ ~Raised(energy_matrix)) =>
        /\ DOMAIN energy_matrix.matrix
               = (0..num_beads) \X {0, 1} \X (0..num_beads) \X {0, 1}
        /\ \A key \in DOMAIN energy_matrix.matrix :
               (~TableEntry(key) /\ LastNaming(key) = 0) => energy_matrix.matrix[key] = 0

\* Three beads S, A, C and the given energy 3 for the side bead of 2 and
\* bead 1: that entry is 3, its main-main twin and the mirrored table
\* entries stay 0, the table entry of (1, 2) is the energy of (A, S).
C30_Witness ==
    /\ pc = "energy_done"
    /\ interaction.class = "MiyazawaJerniganInteraction"
    /\ num_beads = 3
    /\ sequence = <<"S", "A", "C">>
    /\ GivenEnergies = <<<<<<2, 1>>, <<1, 0>>, 3>>>>
    /\ energy_matrix.matrix[<<2, 1, 1, 0>>] = 3
    /\ energy_matrix.matrix[<<2, 0, 1, 0>>] = 0
    /\ energy_matrix.matrix[<<1, 1, 2, 0>>] = 0
    /\ energy_matrix.matrix[<<0, 0, 3, 0>>] = 0
    /\ energy_matrix.matrix[<<1, 0, 2, 0>>] = mj(1, 3)

====
